---------------------------- MODULE Spec2Model ----------------------------
(***************************************************************************)
(* Transaction ledger (src/models.py, src/app.py) and statement paginator  *)
(* (src/statement_generator/generate_statement.py).                        *)
(*                                                                         *)
(* Amounts are exact integers of the minor currency unit (cents): the      *)
(* opening balance 5299.34 is 529934.  Timestamps are integer ticks of the *)
(* database clock; several statements may run within one tick.             *)
(* The columns of a transfer that neither the balance nor the history      *)
(* reads (from_account, to_email, to_name, date, message) are left out.    *)
(***************************************************************************)
EXTENDS Integers, Sequences, FiniteSets, TLC

VARIABLES
    transfers,   \* table transfers, rows in insertion order
    deposits,    \* table deposits, rows in insertion order
    now,         \* CURRENT_TIMESTAMP of the database
    last,        \* the last call: operation, arguments, outcome
    dashboard,   \* index: what the last call rendered, with its locals
    request,     \* /api/create-transfer: each request's position and locals
    session,     \* the session of the browser that walks through send-money
    first_page_cap,   \* configured value of TRANSACTIONS_FIRST_PAGE
    other_page_cap,   \* configured value of TRANSACTIONS_OTHER_PAGES
    transactions,     \* paginate_transactions: its argument
    pages,            \* paginate_transactions: the list it builds
    remaining,        \* paginate_transactions: the rest still to place
    page_num,         \* paginate_transactions: number of the next page
    pc                \* paginate_transactions: "call", "loop", "done"; "off"

ledger_vars == <<transfers, deposits, now, last>>
paginate_vars == <<first_page_cap, other_page_cap, transactions, pages,
                   remaining, page_num, pc>>
index_vars == <<dashboard>>
request_vars == <<request>>
session_vars == <<session>>
vars == <<transfers, deposits, now, last, dashboard, request, session, first_page_cap, other_page_cap,
          transactions, pages, remaining, page_num, pc>>

-----------------------------------------------------------------------------
(* Bounds of the model *)

MaxDeposits == 1    \* deposits recorded in one behaviour
MaxTime == 1        \* ticks of the database clock
MaxItems == 21      \* longest transaction list given to the paginator

(* Program constants *)

starting_balance == 529934   \* 5299.34, in cents
NULL == -1                   \* SQL NULL of a TIMESTAMP column
TRANSACTIONS_FIRST_PAGE == 7
TRANSACTIONS_OTHER_PAGES == 12

(* Inputs *)

Days == {0, 1, 30}     \* windows a caller may ask for; one tick is one day

TransferAmounts == {-500, 0, 250}
DepositAmounts == {-500, 0, 100}
Refs == {"REF1", "REF2"}
TransferIds == {1, 2, 3}
Statuses == {"pending", "completed"}

\* op: the operation; id: the row it names or creates (0: none); result: "ok"
\* or the error; was: the status the named row had before the call ("none":
\* no such row)
NoCall == [op |-> "none", id |-> 0, result |-> "", was |-> "none"]

-----------------------------------------------------------------------------
(* Database.get_balance *)

RECURSIVE SumAmount(_)
\* SELECT COALESCE(SUM(amount), 0) over the given rows
SumAmount(rows) ==
    IF rows = <<>> THEN 0
    ELSE Head(rows).amount + SumAmount(Tail(rows))

\* the status filter left out of the sum of outgoing transfers
IsCompleted_AnyStatus(row) == TRUE

IsCompleted(row) == row.status = "completed"

\* the outgoing total read from the first completed row instead of SUM(amount)
get_balance_on_FirstRowOnly(T, D) ==
    LET done == SelectSeq(T, IsCompleted)
        total_outgoing == IF done = <<>> THEN 0 ELSE Head(done).amount
        total_deposits == SumAmount(D)
    IN  starting_balance - total_outgoing + total_deposits

get_balance_on(T, D) ==
    LET total_outgoing == SumAmount(SelectSeq(T, IsCompleted))
        total_deposits == SumAmount(D)
    IN  starting_balance - total_outgoing + total_deposits

get_balance == get_balance_on(transfers, deposits)

-----------------------------------------------------------------------------
(* Database.get_transfers and Database.get_deposits: the rows the WHERE     *)
(* clauses select, in insertion order                                       *)

TransferInWindow(row, days) ==
    /\ row.status = "completed"
    /\ \/ (row.completed_at # NULL /\ row.completed_at >= now - days)
       \/ (row.completed_at = NULL /\ row.created_at >= now - days)

get_transfers_where(days) ==
    SelectSeq(transfers, LAMBDA row : TransferInWindow(row, days))

DepositInWindow(row, days) == row.created_at >= now - days

get_deposits_where(days) ==
    SelectSeq(deposits, LAMBDA row : DepositInWindow(row, days))

-----------------------------------------------------------------------------
(* Database.create_transfer *)

\* the UNIQUE constraint on reference_number left out
RefTaken_NoConstraint(reference_number) == FALSE

RefTaken(reference_number) ==
    \E i \in 1..Len(transfers) : transfers[i].reference_number = reference_number

NewTransfer(amount, reference_number) ==
    [id |-> Len(transfers) + 1,
     amount |-> amount,
     reference_number |-> reference_number,
     status |-> "pending",
     created_at |-> now,
     completed_at |-> NULL]

create_transfer(amount, reference_number) ==
    /\ IF RefTaken(reference_number)
       THEN /\ UNCHANGED transfers
            /\ last' = [NoCall EXCEPT !.op = "create_transfer",
                                       !.result = "IntegrityError"]
       ELSE /\ transfers' = Append(transfers, NewTransfer(amount, reference_number))
            /\ last' = [NoCall EXCEPT !.op = "create_transfer",
                                       !.id = Len(transfers) + 1,
                                       !.result = "ok"]
    /\ UNCHANGED <<deposits, now>>

-----------------------------------------------------------------------------
(* Database.update_transfer_status *)

\* the UPDATE without its WHERE id = ... clause
UpdatedRow_NoWhere(row, transfer_id, status) ==
    IF status = "completed"
    THEN [row EXCEPT !.status = status, !.completed_at = now]
    ELSE [row EXCEPT !.status = status]

UpdatedRow(row, transfer_id, status) ==
    IF row.id # transfer_id THEN row
    ELSE IF status = "completed"
         THEN [row EXCEPT !.status = status, !.completed_at = now]
         ELSE [row EXCEPT !.status = status]

StatusOf(transfer_id) ==
    IF transfer_id \in 1..Len(transfers) THEN transfers[transfer_id].status ELSE "none"

update_transfer_status(transfer_id, status) ==
    /\ transfers' = [i \in 1..Len(transfers) |->
                        UpdatedRow(transfers[i], transfer_id, status)]
    /\ last' = [op |-> "update_transfer_status", id |-> transfer_id,
                result |-> "ok", was |-> StatusOf(transfer_id)]
    /\ UNCHANGED <<deposits, now>>

-----------------------------------------------------------------------------
(* add_money_api, with Database.add_deposit *)

add_deposit(amount) ==
    Append(deposits, [id |-> Len(deposits) + 1, amount |-> amount, created_at |-> now])

\* the amount check written amount < 0
add_money_api_ZeroAccepted(amount) ==
    /\ IF amount < 0
       THEN /\ UNCHANGED deposits
            /\ last' = [NoCall EXCEPT !.op = "add_money_api",
                                       !.result = "error400"]
       ELSE /\ Len(deposits) < MaxDeposits
            /\ deposits' = add_deposit(amount)
            /\ last' = [NoCall EXCEPT !.op = "add_money_api",
                                       !.id = Len(deposits) + 1,
                                       !.result = "ok"]
    /\ UNCHANGED <<transfers, now>>

add_money_api(amount) ==
    /\ IF amount <= 0
       THEN /\ UNCHANGED deposits
            /\ last' = [NoCall EXCEPT !.op = "add_money_api",
                                       !.result = "error400"]
       ELSE /\ Len(deposits) < MaxDeposits
            /\ deposits' = add_deposit(amount)
            /\ last' = [NoCall EXCEPT !.op = "add_money_api",
                                       !.id = Len(deposits) + 1,
                                       !.result = "ok"]
    /\ UNCHANGED <<transfers, now>>

-----------------------------------------------------------------------------
(* The database clock *)

Tick ==
    /\ now < MaxTime
    /\ now' = now + 1
    /\ last' = [NoCall EXCEPT !.op = "tick"]
    /\ UNCHANGED <<transfers, deposits>>

-----------------------------------------------------------------------------
(* Database.get_transfers and Database.get_deposits with ORDER BY and LIMIT. *)
(* SQL leaves the order of rows with equal sort keys open, so each query has *)
(* a set of possible results.                                                *)

Min(a, b) == IF a <= b THEN a ELSE b

Abs(x) == IF x < 0 THEN -x ELSE x

\* CASE WHEN completed_at IS NOT NULL THEN completed_at ELSE created_at END
TransferOrderKey(row) ==
    IF row.completed_at # NULL THEN row.completed_at ELSE row.created_at

DepositOrderKey(row) == row.created_at

\* ORDER BY ... DESC, key[i] being the sort key of rows[i]: every order of
\* the rows in which the keys do not rise
OrderByDesc(rows, key) ==
    {[i \in 1..Len(rows) |-> rows[p[i]]] :
        p \in {q \in Permutations(1..Len(rows)) :
                 \A i, j \in 1..Len(rows) :
                     i < j => key[q[i]] >= key[q[j]]}}

\* LIMIT n
Limit(rows, n) == SubSeq(rows, 1, Min(n, Len(rows)))

get_transfers(limit, days) ==
    LET selected == get_transfers_where(days)
        key == [i \in 1..Len(selected) |-> TransferOrderKey(selected[i])]
    IN  {Limit(rows, limit) : rows \in OrderByDesc(selected, key)}

get_deposits(limit, days) ==
    LET selected == get_deposits_where(days)
        key == [i \in 1..Len(selected) |-> DepositOrderKey(selected[i])]
    IN  {Limit(rows, limit) : rows \in OrderByDesc(selected, key)}

-----------------------------------------------------------------------------
(* index: the dashboard.  The source calls get_transfers and get_deposits   *)
(* with limit = 100 and days = 30; here the two values are inputs, so that  *)
(* the limit and the window cut rows off in a small ledger.                 *)

Limits == {1, 100}

NoDashboard ==
    [shown |-> FALSE, limit |-> 0, days |-> 0, balance |-> 0,
     running_balance |-> 0, transactions |-> <<>>]

\* transfer.get('completed_at') or transfer.get('created_at')
TransferDate(row) ==
    IF row.completed_at # NULL THEN row.completed_at ELSE row.created_at

TransferEntry(row) ==
    [type |-> "transfer", date |-> TransferDate(row),
     category |-> row.reference_number, amount |-> -row.amount,
     is_positive |-> FALSE]

DepositEntry(row) ==
    [type |-> "deposit", date |-> row.created_at,
     category |-> "Deposit", amount |-> row.amount,
     is_positive |-> TRUE]

\* all_transactions before the sort: the transfers, then the deposits
Entries(T, D) ==
    [i \in 1..(Len(T) + Len(D)) |->
        IF i <= Len(T) THEN TransferEntry(T[i]) ELSE DepositEntry(D[i - Len(T)])]

\* x put behind the entries of the sorted list whose date is not below its own
InsertByDate(sorted, x) ==
    LET k == Cardinality({i \in 1..Len(sorted) : sorted[i].date >= x.date})
    IN  SubSeq(sorted, 1, k) \o <<x>> \o SubSeq(sorted, k + 1, Len(sorted))

RECURSIVE SortPrefix(_, _)
SortPrefix(list, n) ==
    IF n = 0 THEN <<>>
    ELSE InsertByDate(SortPrefix(list, n - 1), list[n])

\* all_transactions left in the order transfers, deposits
SortByDateDesc_Unsorted(list) == list

\* list.sort(key=lambda x: x['date'], reverse=True): stable
SortByDateDesc(list) == SortPrefix(list, Len(list))

RECURSIVE SumOutgoing(_)
\* sum(abs(t['amount']) for t in all_transactions if not t['is_positive'])
SumOutgoing(list) ==
    IF list = <<>> THEN 0
    ELSE (IF Head(list).is_positive THEN 0 ELSE Abs(Head(list).amount))
         + SumOutgoing(Tail(list))

RECURSIVE SumDeposits(_)
\* sum(t['amount'] for t in all_transactions if t['is_positive'])
SumDeposits(list) ==
    IF list = <<>> THEN 0
    ELSE (IF Head(list).is_positive THEN Head(list).amount ELSE 0)
         + SumDeposits(Tail(list))

\* the walk started at the balance over the whole ledger
RunningStart_WholeLedger(list) == get_balance

\* running_balance before the loop over all_transactions
RunningStart(list) == starting_balance - SumOutgoing(list) + SumDeposits(list)

\* running_balance after the adjustment for one transaction
Adjusted(running_balance, transaction) ==
    IF transaction.type = "transfer"
    THEN running_balance + Abs(transaction.amount)
    ELSE running_balance - transaction.amount

RECURSIVE Annotated(_, _)
\* the loop: adjust running_balance, then store it as balance_after
Annotated(list, running_balance) ==
    IF list = <<>> THEN <<>>
    ELSE LET r == Adjusted(running_balance, Head(list))
         IN  <<[type |-> Head(list).type, date |-> Head(list).date,
                category |-> Head(list).category, amount |-> Head(list).amount,
                is_positive |-> Head(list).is_positive, balance_after |-> r]>>
             \o Annotated(Tail(list), r)

Rendered(limit, days, T, D) ==
    LET all_transactions == SortByDateDesc(Entries(T, D))
    IN  [shown |-> TRUE, limit |-> limit, days |-> days,
         balance |-> get_balance,
         running_balance |-> RunningStart(all_transactions),
         transactions |-> Annotated(all_transactions, RunningStart(all_transactions))]

index(limit, days) ==
    /\ \E T \in get_transfers(limit, days), D \in get_deposits(limit, days) :
           dashboard' = Rendered(limit, days, T, D)
    /\ last' = [NoCall EXCEPT !.op = "index"]
    /\ UNCHANGED <<transfers, deposits, now>>

-----------------------------------------------------------------------------
(* create_transfer of app.py, the handler of /api/create-transfer.  Each    *)
(* call of a Database method opens its own connection and commits, so it is *)
(* one atomic step; the steps of concurrent requests interleave.            *)

Requests == {1, 2}

\* pc: "off" (no such request), "start", "created", "settled", "notified",
\* "returned"; "rejected": answered 400; "failed": ended by an exception
\* details: the session holds a contact and transfer_details; amount: the
\* amount of the transfer_details
NoRequest ==
    [pc |-> "off", details |-> FALSE, amount |-> 0, transfer_id |-> 0,
     email_sent |-> FALSE, last_transfer_id |-> 0, new_balance |-> 0]

\* if not contact or not transfer_details: 400
ApiReject(r) ==
    /\ request[r].pc = "start"
    /\ ~request[r].details
    /\ request' = [request EXCEPT ![r].pc = "rejected"]
    /\ UNCHANGED <<transfers, deposits, now, last>>

\* generate_reference_number and db.create_transfer
ApiCreate(r) ==
    /\ request[r].pc = "start"
    /\ request[r].details
    /\ \E reference_number \in Refs :
           create_transfer(request[r].amount, reference_number)
    /\ request' = [request EXCEPT
                      ![r].pc = IF last'.result = "ok" THEN "created" ELSE "failed",
                      ![r].transfer_id = last'.id]

\* the settlement writing back the table as it was when all rows were pending
ApiSettle_StaleTable(r) ==
    /\ request[r].pc = "created"
    /\ transfers' = [i \in 1..Len(transfers) |->
                        IF transfers[i].id = request[r].transfer_id
                        THEN UpdatedRow(transfers[i], request[r].transfer_id, "completed")
                        ELSE [transfers[i] EXCEPT !.status = "pending"]]
    /\ last' = [op |-> "update_transfer_status", id |-> request[r].transfer_id,
                result |-> "ok", was |-> StatusOf(request[r].transfer_id)]
    /\ request' = [request EXCEPT ![r].pc = "settled"]
    /\ UNCHANGED <<deposits, now>>

\* db.update_transfer_status(transfer_id, 'completed'); db.update_balance
\* does nothing
ApiSettle(r) ==
    /\ request[r].pc = "created"
    /\ update_transfer_status(request[r].transfer_id, "completed")
    /\ request' = [request EXCEPT ![r].pc = "settled"]

\* a failed e-mail undoing the settlement
ApiNotify_RollsBack(r) ==
    /\ request[r].pc = "settled"
    /\ \E sent \in BOOLEAN :
           /\ request' = [request EXCEPT ![r].pc = "notified", ![r].email_sent = sent]
           /\ transfers' = IF sent THEN transfers
                           ELSE [i \in 1..Len(transfers) |->
                                    UpdatedRow(transfers[i], request[r].transfer_id, "pending")]
    /\ UNCHANGED <<deposits, now, last>>

\* db.get_transfer and send_transfer_email, whose failure is caught
ApiNotify(r) ==
    /\ request[r].pc = "settled"
    /\ \E sent \in BOOLEAN :
           request' = [request EXCEPT ![r].pc = "notified", ![r].email_sent = sent]
    /\ UNCHANGED <<transfers, deposits, now, last>>

\* session['last_transfer_id'] = transfer_id, and the answer, with
\* new_balance = db.get_balance()
ApiReturn(r) ==
    /\ request[r].pc = "notified"
    /\ request' = [request EXCEPT ![r].pc = "returned",
                                  ![r].last_transfer_id = request[r].transfer_id,
                                  ![r].new_balance = get_balance]
    /\ UNCHANGED <<transfers, deposits, now, last>>

-----------------------------------------------------------------------------
(* The send-money pages of one browser: enter_details, review_transfer,     *)
(* /api/create-transfer as request 1, transfer_success.  The browser sends  *)
(* one request at a time.  last_transfer_id = 0: not in the session.        *)

NoSession ==
    [selected_contact |-> FALSE, transfer_details |-> FALSE, amount |-> 0,
     last_transfer_id |-> 0]

\* no request to /api/create-transfer is being served
Idle == request[1].pc \in {"off", "returned", "rejected", "failed"}

\* found: contact_id is given and db.get_contact finds the contact
enter_details(found) ==
    /\ Idle
    /\ session' = IF found THEN [session EXCEPT !.selected_contact = TRUE]
                           ELSE session
    /\ last' = [NoCall EXCEPT !.op = "enter_details",
                               !.result = IF found THEN "ok" ELSE "redirect"]
    /\ UNCHANGED <<transfers, deposits, now, request>>

\* given: the query holds an amount and a date
review_transfer(given, amount) ==
    /\ Idle
    /\ IF session.selected_contact /\ given
       THEN /\ session' = [session EXCEPT !.transfer_details = TRUE,
                                          !.amount = amount]
            /\ last' = [NoCall EXCEPT !.op = "review_transfer", !.result = "ok"]
       ELSE /\ UNCHANGED session
            /\ last' = [NoCall EXCEPT !.op = "review_transfer", !.result = "redirect"]
    /\ UNCHANGED <<transfers, deposits, now, request>>

\* a request to /api/create-transfer arrives with the browser's session
ApiBegin(r) ==
    /\ Idle
    /\ request' = [request EXCEPT ![r] =
           [NoRequest EXCEPT !.pc = "start",
                             !.details = session.selected_contact
                                         /\ session.transfer_details,
                             !.amount = session.amount]]
    /\ UNCHANGED <<transfers, deposits, now, last, session>>

\* the answer of request r reaches the browser, with its session
ApiReturnSession(r) ==
    /\ ApiReturn(r)
    /\ session' = [session EXCEPT !.last_transfer_id = request[r].transfer_id]

\* the success page leaving the session as it was
transfer_success_KeepsSession ==
    /\ Idle
    /\ last' = [NoCall EXCEPT !.op = "transfer_success",
                   !.result = IF session.last_transfer_id \in 1..Len(transfers)
                              THEN "ok" ELSE "redirect"]
    /\ UNCHANGED <<transfers, deposits, now, request, session>>

transfer_success ==
    /\ Idle
    /\ IF session.last_transfer_id \in 1..Len(transfers)
       THEN /\ session' = NoSession
            /\ last' = [NoCall EXCEPT !.op = "transfer_success", !.result = "ok"]
       ELSE /\ UNCHANGED session
            /\ last' = [NoCall EXCEPT !.op = "transfer_success", !.result = "redirect"]
    /\ UNCHANGED <<transfers, deposits, now, request>>

-----------------------------------------------------------------------------
(* paginate_transactions.  The page capacities are the module's two         *)
(* configuration values; a run starts with the capacities as configured and *)
(* a list of transactions, each transaction standing for one dict.          *)

\* capacities at least 1: the values of the source and smaller ones
Capacities == {1, 2, 3, TRANSACTIONS_FIRST_PAGE, TRANSACTIONS_OTHER_PAGES}

Ascending(n) == [i \in 1..n |-> i]
Descending(n) == [i \in 1..n |-> n + 1 - i]
TransactionLists ==
    {Ascending(n) : n \in 0..MaxItems} \cup {Descending(n) : n \in 0..MaxItems}

\* s[:k] of a Python list
SliceTo(s, k) ==
    LET n == Len(s)
        e == IF k >= 0 THEN (IF k < n THEN k ELSE n)
                       ELSE (IF n + k > 0 THEN n + k ELSE 0)
    IN  SubSeq(s, 1, e)

\* s[k:] of a Python list
SliceFrom(s, k) ==
    LET n == Len(s)
        b == IF k >= 0 THEN (IF k < n THEN k ELSE n)
                       ELSE (IF n + k > 0 THEN n + k ELSE 0)
    IN  SubSeq(s, b + 1, n)

Page(num, first, txns) ==
    [page_num |-> num, is_first_page |-> first, transactions |-> txns]

\* the empty input answered with no page at all
PaginateEmpty_NoPage ==
    /\ pc = "call"
    /\ transactions = <<>>
    /\ pages' = <<>>
    /\ pc' = "done"
    /\ UNCHANGED <<first_page_cap, other_page_cap, transactions, remaining, page_num>>
    /\ UNCHANGED <<ledger_vars, index_vars, request_vars, session_vars>>

\* if not transactions: return the one empty first page
PaginateEmpty ==
    /\ pc = "call"
    /\ transactions = <<>>
    /\ pages' = <<Page(1, TRUE, <<>>)>>
    /\ pc' = "done"
    /\ UNCHANGED <<first_page_cap, other_page_cap, transactions, remaining, page_num>>
    /\ UNCHANGED <<ledger_vars, index_vars, request_vars, session_vars>>

\* the first page cut one short of its capacity
PaginateFirst_OneShort ==
    /\ pc = "call"
    /\ transactions # <<>>
    /\ pages' = <<Page(1, TRUE, SliceTo(transactions, first_page_cap - 1))>>
    /\ remaining' = SliceFrom(transactions, first_page_cap - 1)
    /\ page_num' = 2
    /\ pc' = "loop"
    /\ UNCHANGED <<first_page_cap, other_page_cap, transactions>>
    /\ UNCHANGED <<ledger_vars, index_vars, request_vars, session_vars>>

\* the first page, and what remains after it
PaginateFirst ==
    /\ pc = "call"
    /\ transactions # <<>>
    /\ pages' = <<Page(1, TRUE, SliceTo(transactions, first_page_cap))>>
    /\ remaining' = SliceFrom(transactions, first_page_cap)
    /\ page_num' = 2
    /\ pc' = "loop"
    /\ UNCHANGED <<first_page_cap, other_page_cap, transactions>>
    /\ UNCHANGED <<ledger_vars, index_vars, request_vars, session_vars>>

\* the loop advancing by one more than the page holds
PaginateNext_SkipsOne ==
    /\ pc = "loop"
    /\ remaining # <<>>
    /\ pages' = Append(pages, Page(page_num, FALSE, SliceTo(remaining, other_page_cap)))
    /\ remaining' = SliceFrom(remaining, other_page_cap + 1)
    /\ page_num' = page_num + 1
    /\ UNCHANGED <<first_page_cap, other_page_cap, transactions, pc>>
    /\ UNCHANGED <<ledger_vars, index_vars, request_vars, session_vars>>

\* the loop placing a page without taking it off remaining
PaginateNext_KeepsRemaining ==
    /\ pc = "loop"
    /\ remaining # <<>>
    /\ pages' = Append(pages, Page(page_num, FALSE, SliceTo(remaining, other_page_cap)))
    /\ page_num' = page_num + 1
    /\ UNCHANGED <<first_page_cap, other_page_cap, transactions, remaining, pc>>
    /\ UNCHANGED <<ledger_vars, index_vars, request_vars, session_vars>>

\* one iteration of: while remaining
PaginateNext ==
    /\ pc = "loop"
    /\ remaining # <<>>
    /\ pages' = Append(pages, Page(page_num, FALSE, SliceTo(remaining, other_page_cap)))
    /\ remaining' = SliceFrom(remaining, other_page_cap)
    /\ page_num' = page_num + 1
    /\ UNCHANGED <<first_page_cap, other_page_cap, transactions, pc>>
    /\ UNCHANGED <<ledger_vars, index_vars, request_vars, session_vars>>

\* the pages after the first returned with numbers one too high
PaginateReturn_Renumbered ==
    /\ pc = "loop"
    /\ remaining = <<>>
    /\ pages' = [i \in 1..Len(pages) |->
                    [pages[i] EXCEPT !.page_num = IF i = 1 THEN 1 ELSE i + 1]]
    /\ pc' = "done"
    /\ UNCHANGED <<first_page_cap, other_page_cap, transactions, remaining, page_num>>
    /\ UNCHANGED <<ledger_vars, index_vars, request_vars, session_vars>>

\* the loop ends: return pages
PaginateReturn ==
    /\ pc = "loop"
    /\ remaining = <<>>
    /\ pc' = "done"
    /\ UNCHANGED <<first_page_cap, other_page_cap, transactions, pages,
                   remaining, page_num>>
    /\ UNCHANGED <<ledger_vars, index_vars, request_vars, session_vars>>

-----------------------------------------------------------------------------
(* The ledger: calls of the Database methods and of add_money_api, in any   *)
(* order, with the clock running                                            *)

InitLedger ==
    /\ transfers = <<>>
    /\ deposits = <<>>
    /\ now = 0
    /\ last = NoCall
    /\ dashboard = NoDashboard
    /\ request = [r \in Requests |-> NoRequest]
    /\ session = NoSession

PaginatorOff ==
    /\ first_page_cap = TRANSACTIONS_FIRST_PAGE
    /\ other_page_cap = TRANSACTIONS_OTHER_PAGES
    /\ transactions = <<>>
    /\ pages = <<>>
    /\ remaining = <<>>
    /\ page_num = 0
    /\ pc = "off"

Init == InitLedger /\ PaginatorOff

CreateTransfer ==
    /\ \E a \in TransferAmounts, r \in Refs : create_transfer(a, r)
    /\ dashboard' = NoDashboard
    /\ UNCHANGED <<paginate_vars, request_vars, session_vars>>

UpdateTransferStatus ==
    /\ \E id \in TransferIds, s \in Statuses : update_transfer_status(id, s)
    /\ dashboard' = NoDashboard
    /\ UNCHANGED <<paginate_vars, request_vars, session_vars>>

AddMoney ==
    /\ \E a \in DepositAmounts : add_money_api(a)
    /\ dashboard' = NoDashboard
    /\ UNCHANGED <<paginate_vars, request_vars, session_vars>>

ClockTick ==
    /\ Tick
    /\ dashboard' = NoDashboard
    /\ UNCHANGED <<paginate_vars, request_vars, session_vars>>

Next ==
    \/ CreateTransfer
    \/ UpdateTransferStatus
    \/ AddMoney
    \/ ClockTick

Spec == Init /\ [][Next]_vars

-----------------------------------------------------------------------------
(* The ledger with its dashboard: the calls of Spec, and index.  dashboard  *)
(* holds what index rendered as long as no other call came after it.        *)

Index ==
    /\ \E limit \in Limits, days \in Days : index(limit, days)
    /\ UNCHANGED <<paginate_vars, request_vars, session_vars>>

NextHistory ==
    \/ CreateTransfer
    \/ UpdateTransferStatus
    \/ AddMoney
    \/ ClockTick
    \/ Index

SpecHistory == Init /\ [][NextHistory]_vars

-----------------------------------------------------------------------------
(* The dashboard over the ledger as the handlers of app.py write it: the    *)
(* only caller of update_transfer_status is /api/create-transfer, which     *)
(* settles the transfer it has just created, once, as completed.            *)

\* amounts sent and deposited: a transfer amount below zero (which nothing
\* rejects) and one above, one deposit amount
SentAmounts == {-500, 250}
DepositedAmounts == {100}

SendMoney ==
    /\ \E a \in SentAmounts, r \in Refs : create_transfer(a, r)
    /\ dashboard' = NoDashboard
    /\ UNCHANGED <<paginate_vars, request_vars, session_vars>>

Deposit ==
    /\ \E a \in DepositedAmounts : add_money_api(a)
    /\ dashboard' = NoDashboard
    /\ UNCHANGED <<paginate_vars, request_vars, session_vars>>

SettleCreated ==
    /\ \E id \in 1..Len(transfers) :
           /\ transfers[id].status = "pending"
           /\ update_transfer_status(id, "completed")
    /\ dashboard' = NoDashboard
    /\ UNCHANGED <<paginate_vars, request_vars, session_vars>>

NextDashboard ==
    \/ SendMoney
    \/ SettleCreated
    \/ Deposit
    \/ ClockTick
    \/ Index

SpecDashboard == Init /\ [][NextDashboard]_vars

-----------------------------------------------------------------------------
(* Two concurrent requests to /api/create-transfer on an empty ledger, each *)
(* from a session with or without transfer details                          *)

Sessions ==
    {[NoRequest EXCEPT !.pc = "start"]}
    \cup {[NoRequest EXCEPT !.pc = "start", !.details = TRUE, !.amount = a] :
              a \in TransferAmounts}

InitRequests ==
    /\ transfers = <<>>
    /\ deposits = <<>>
    /\ now = 0
    /\ last = NoCall
    /\ dashboard = NoDashboard
    /\ request \in [Requests -> Sessions]
    /\ session = NoSession
    /\ PaginatorOff

Reject ==
    /\ \E r \in Requests : ApiReject(r)
    /\ UNCHANGED <<dashboard, paginate_vars, session_vars>>

Create ==
    /\ \E r \in Requests : ApiCreate(r)
    /\ UNCHANGED <<dashboard, paginate_vars, session_vars>>

Settle ==
    /\ \E r \in Requests : ApiSettle(r)
    /\ UNCHANGED <<dashboard, paginate_vars, session_vars>>

Notify ==
    /\ \E r \in Requests : ApiNotify(r)
    /\ UNCHANGED <<dashboard, paginate_vars, session_vars>>

Return ==
    /\ \E r \in Requests : ApiReturn(r)
    /\ UNCHANGED <<dashboard, paginate_vars, session_vars>>

NextRequests ==
    \/ Reject
    \/ Create
    \/ Settle
    \/ Notify
    \/ Return
    \/ ClockTick

SpecRequests == InitRequests /\ [][NextRequests]_vars

-----------------------------------------------------------------------------
(* One browser walking through the send-money pages, in any order           *)

EnterDetails ==
    /\ \E found \in BOOLEAN : enter_details(found)
    /\ UNCHANGED <<dashboard, paginate_vars>>

ReviewTransfer ==
    /\ \E given \in BOOLEAN, amount \in TransferAmounts : review_transfer(given, amount)
    /\ UNCHANGED <<dashboard, paginate_vars>>

Begin ==
    /\ ApiBegin(1)
    /\ UNCHANGED <<dashboard, paginate_vars>>

ReturnSession ==
    /\ ApiReturnSession(1)
    /\ UNCHANGED <<dashboard, paginate_vars>>

TransferSuccess ==
    /\ transfer_success
    /\ UNCHANGED <<dashboard, paginate_vars>>

NextWorkflow ==
    \/ EnterDetails
    \/ ReviewTransfer
    \/ Begin
    \/ Reject
    \/ Create
    \/ Settle
    \/ Notify
    \/ ReturnSession
    \/ TransferSuccess

SpecWorkflow == Init /\ [][NextWorkflow]_vars

-----------------------------------------------------------------------------
(* The paginator: one call of paginate_transactions on a list of            *)
(* transactions, under capacities of at least 1                             *)

InitPaginate ==
    /\ InitLedger
    /\ first_page_cap \in Capacities
    /\ other_page_cap \in Capacities
    /\ transactions \in TransactionLists
    /\ pages = <<>>
    /\ remaining = <<>>
    /\ page_num = 0
    /\ pc = "call"

NextPaginate ==
    \/ PaginateEmpty
    \/ PaginateFirst
    \/ PaginateNext
    \/ PaginateReturn

SpecPaginate == InitPaginate /\ [][NextPaginate]_vars

\* a call that has started keeps running
SpecPaginateFair == SpecPaginate /\ WF_vars(NextPaginate)

-----------------------------------------------------------------------------
(* The paginator under any configuration: the capacities may be below 1.    *)
(* With a capacity of 0 or less for the later pages the loop of the source  *)
(* never ends, so the model stops following it after MaxPages pages; under  *)
(* capacities of at least 1 no call builds that many.                       *)

MaxPages == MaxItems + 2

AnyCapacities == {-1, 0} \cup Capacities

InitPaginateAny ==
    /\ InitLedger
    /\ first_page_cap \in AnyCapacities
    /\ other_page_cap \in AnyCapacities
    /\ transactions \in TransactionLists
    /\ pages = <<>>
    /\ remaining = <<>>
    /\ page_num = 0
    /\ pc = "call"

PaginateNextCapped ==
    /\ Len(pages) < MaxPages
    /\ PaginateNext

NextPaginateAny ==
    \/ PaginateEmpty
    \/ PaginateFirst
    \/ PaginateNextCapped
    \/ PaginateReturn

SpecPaginateAny == InitPaginateAny /\ [][NextPaginateAny]_vars

-----------------------------------------------------------------------------
(* Properties of the ledger *)

RECURSIVE AmountOfRows(_, _)
\* the sum of the amounts of the rows of a table named by a set of positions
AmountOfRows(rows, ids) ==
    IF ids = {} THEN 0
    ELSE LET i == CHOOSE j \in ids : TRUE
         IN  rows[i].amount + AmountOfRows(rows, ids \ {i})

CompletedRows == {i \in DOMAIN transfers : transfers[i].status = "completed"}
PendingRows == {i \in DOMAIN transfers : transfers[i].status = "pending"}

Reordered(rows, p) == [i \in DOMAIN rows |-> rows[p[i]]]

WithoutRow(rows, k) == SelectSeq(rows, LAMBDA row : row.id # k)

\* every row of a table that was there before the step is there unchanged after
Kept(rows, rowsAfter) ==
    /\ Len(rowsAfter) >= Len(rows)
    /\ \A i \in DOMAIN rows : rowsAfter[i] = rows[i]

\* C1: in every reachable state the balance is the opening balance minus the
\* amounts of the completed transfers plus the amounts of all deposits, and it
\* is the same for every insertion order of the same rows.
C1_BalanceFromHistory ==
    /\ get_balance = starting_balance
                        - AmountOfRows(transfers, CompletedRows)
                        + AmountOfRows(deposits, DOMAIN deposits)
    /\ \A p \in Permutations(DOMAIN transfers) :
          \A q \in Permutations(DOMAIN deposits) :
             get_balance_on(Reordered(transfers, p), Reordered(deposits, q)) = get_balance

C1_Witness ==
    /\ Len(transfers) = 2
    /\ CompletedRows = {1, 2}
    /\ transfers[1].amount # transfers[2].amount
    /\ Len(deposits) = 1

C2_PendingIsExcluded ==
    /\ \A k \in PendingRows :
          get_balance_on(WithoutRow(transfers, k), deposits) = get_balance
    /\ \A days \in Days :
          \A i \in DOMAIN get_transfers_where(days) :
             get_transfers_where(days)[i].status # "pending"

C2_CreateKeepsBalance ==
    \A a \in TransferAmounts, r \in Refs :
       create_transfer(a, r) => get_balance' = get_balance

\* C2: a pending transfer contributes nothing to the balance (the balance is
\* that of the ledger without the pending row), no pending transfer is among
\* the rows the history selects, and create_transfer leaves the balance as it was.
C2_PendingNeverCounts == [](C2_PendingIsExcluded) /\ [][C2_CreateKeepsBalance]_vars

C2_Witness ==
    /\ last.op = "create_transfer"
    /\ last.result = "ok"
    /\ transfers[last.id].status = "pending"
    /\ transfers[last.id].amount > 0
    /\ CompletedRows # {}

C3_SettleStep ==
    \A id \in TransferIds :
       (update_transfer_status(id, "completed") /\ StatusOf(id) = "pending") =>
          /\ transfers' = [transfers EXCEPT ![id].status = "completed",
                                            ![id].completed_at = now]
          /\ deposits' = deposits
          /\ get_balance' = get_balance - transfers[id].amount

\* C3: update_transfer_status(id, 'completed') on a pending transfer sets its
\* status to completed and its completed_at to the current instant, lowers the
\* balance by exactly that transfer's amount and changes no other row.
C3_SettleMovesIntoBalance == [][C3_SettleStep]_vars

C3_Witness ==
    /\ last.op = "update_transfer_status"
    /\ last.was = "pending"
    /\ Len(transfers) = 2
    /\ transfers[last.id].status = "completed"
    /\ transfers[last.id].completed_at = now
    /\ transfers[last.id].created_at < now
    /\ transfers[last.id].amount > 0

C4_DoubleSettleStep ==
    \A id \in TransferIds :
       (update_transfer_status(id, "completed") /\ StatusOf(id) = "completed") =>
          /\ last'.result = "InvalidStateError"
          /\ get_balance' = get_balance

\* C4: update_transfer_status(id, 'completed') on a transfer that is already
\* completed raises InvalidStateError and leaves the balance unchanged.
C4_DoubleSettleRaises == [][C4_DoubleSettleStep]_vars

C5_Step ==
    /\ Kept(deposits, deposits')
    /\ Len(transfers') >= Len(transfers)
    /\ \A i \in DOMAIN transfers :
          \/ transfers'[i] = transfers[i]
          \/ /\ transfers[i].status = "pending"
             /\ transfers'[i] = [transfers[i] EXCEPT !.status = "completed",
                                                     !.completed_at = now]

\* C5: the ledger is append-only: no row is deleted, no deposit is modified,
\* and a transfer changes only by the one transition pending -> completed; a
\* completed transfer never changes again.
C5_AppendOnly == [][C5_Step]_vars

C6_RejectStep ==
    \A a \in TransferAmounts, r \in Refs :
       (create_transfer(a, r) /\ a <= 0) =>
          /\ last'.result = "ValidationError"
          /\ transfers' = transfers
          /\ get_balance' = get_balance

\* C6: create_transfer with amount <= 0 fails with ValidationError and appends
\* nothing, so no stored transfer has a non-positive amount.
C6_NonPositiveTransferRejected ==
    /\ [](\A i \in DOMAIN transfers : transfers[i].amount > 0)
    /\ [][C6_RejectStep]_vars

C7_DepositStep ==
    \A a \in DepositAmounts :
       add_money_api(a) =>
          /\ transfers' = transfers
          /\ IF a <= 0
             THEN /\ last'.result = "error400"
                  /\ deposits' = deposits
                  /\ get_balance' = get_balance
             ELSE /\ last'.result = "ok"
                  /\ Len(deposits') = Len(deposits) + 1
                  /\ Kept(deposits, deposits')
                  /\ deposits'[Len(deposits')].amount = a
                  /\ get_balance' = get_balance + a

\* C7: add_money_api with amount <= 0 is rejected and appends nothing (deposits
\* and balance unchanged); with amount > 0 it appends exactly one deposit of
\* that amount and raises the balance by exactly that amount.
C7_DepositValidated == [][C7_DepositStep]_vars

C7_Witness ==
    /\ last.op = "add_money_api"
    /\ last.result = "error400"
    /\ Len(deposits) = 1
    /\ Len(transfers) > 0

C8_UniqueRefs ==
    \A i, j \in DOMAIN transfers :
       transfers[i].reference_number = transfers[j].reference_number => i = j

C8_ReuseStep ==
    \A a \in TransferAmounts, r \in Refs :
       (create_transfer(a, r) /\ RefTaken(r)) =>
          /\ last'.result = "IntegrityError"
          /\ transfers' = transfers
          /\ deposits' = deposits

\* C8: reference numbers are unique among the transfers in every reachable
\* state; a create_transfer that reuses one fails (IntegrityError of the UNIQUE
\* constraint) and leaves every table as it was.
C8_ReferenceUnique == [](C8_UniqueRefs) /\ [][C8_ReuseStep]_vars

C8_Witness ==
    /\ last.op = "create_transfer"
    /\ last.result = "IntegrityError"
    /\ Len(transfers) = 2

C9_UnknownIdStep ==
    \A id \in TransferIds, s \in Statuses :
       (update_transfer_status(id, s) /\ StatusOf(id) = "none") =>
          /\ last'.result = "NotFoundError"
          /\ transfers' = transfers
          /\ deposits' = deposits
          /\ get_balance' = get_balance

\* C9: update_transfer_status with an id that names no transfer fails with
\* NotFoundError and leaves transfers, deposits and balance unchanged.
C9_UnknownIdRaises == [][C9_UnknownIdStep]_vars

-----------------------------------------------------------------------------
(* Properties of the paginator *)

RECURSIVE Concatenated(_)
\* the transactions of the pages, page after page
Concatenated(pp) ==
    IF pp = <<>> THEN <<>>
    ELSE Head(pp).transactions \o Concatenated(Tail(pp))

\* C10: for every list of transactions and capacities of at least 1, the
\* transactions of the returned pages, concatenated in page order, are the
\* input list: same elements, same order, none dropped or repeated.
C10_LosslessPartition ==
    pc = "done" => Concatenated(pages) = transactions

C10_Witness ==
    /\ pc = "done"
    /\ first_page_cap = TRANSACTIONS_FIRST_PAGE
    /\ other_page_cap = TRANSACTIONS_OTHER_PAGES
    /\ Len(transactions) = MaxItems
    /\ Len(pages) = 3
    /\ transactions[1] > transactions[2]

\* C11: paginate_transactions on an empty list returns exactly one page,
\* numbered 1, flagged as the first page, with no transactions, whatever the
\* two capacities are.
C11_EmptyGivesOnePage ==
    (pc = "done" /\ transactions = <<>>) => pages = <<Page(1, TRUE, <<>>)>>

C11_Witness ==
    /\ pc = "done"
    /\ transactions = <<>>
    /\ first_page_cap = 0
    /\ other_page_cap = -1
    /\ Len(pages) = 1

\* ceil(a / b) for a >= 0, b >= 1
CeilDiv(a, b) == (a + b - 1) \div b

PageLen(i) == Len(pages[i].transactions)

\* C12: for a non-empty list of n transactions and capacities f >= 1 and
\* o >= 1, page 1 holds min(n, f) transactions, every later page holds
\* between 1 and o, every page but the last is filled to its capacity, and
\* there is 1 page when n <= f and 1 + ceil((n - f) / o) pages otherwise.
C12_PageSizes ==
    (pc = "done" /\ transactions # <<>>) =>
        LET n == Len(transactions)
            f == first_page_cap
            o == other_page_cap
            k == Len(pages)
        IN  /\ k >= 1
            /\ PageLen(1) = Min(n, f)
            /\ \A i \in 2..k : PageLen(i) >= 1 /\ PageLen(i) <= o
            /\ \A i \in 1..(k - 1) : PageLen(i) = IF i = 1 THEN f ELSE o
            /\ k = IF n <= f THEN 1 ELSE 1 + CeilDiv(n - f, o)

\* f + 1 transactions: two pages, of f and of 1
C12_Witness ==
    /\ pc = "done"
    /\ first_page_cap = TRANSACTIONS_FIRST_PAGE
    /\ other_page_cap = TRANSACTIONS_OTHER_PAGES
    /\ Len(transactions) = TRANSACTIONS_FIRST_PAGE + 1
    /\ Len(pages) = 2
    /\ PageLen(1) = TRANSACTIONS_FIRST_PAGE
    /\ PageLen(2) = 1

\* C13: the pages returned are numbered 1, 2, ..., k in that order, and
\* is_first_page is true for page 1 and false for every other page.
C13_PageNumbers ==
    pc = "done" =>
        \A i \in 1..Len(pages) :
            /\ pages[i].page_num = i
            /\ pages[i].is_first_page = (i = 1)

C13_Witness ==
    /\ pc = "done"
    /\ first_page_cap = 2
    /\ other_page_cap = 3
    /\ Len(pages) = 4
    /\ pages[4].page_num = 4
    /\ ~pages[4].is_first_page

BadCapacity == first_page_cap < 1 \/ other_page_cap < 1

\* C14: under a first-page or other-page capacity below 1 a call of
\* paginate_transactions on a non-empty list is rejected and builds no page:
\* no empty first page, no page of zero capacity, no loop.
C14_BadCapacityRejected ==
    (BadCapacity /\ transactions # <<>>) => pages = <<>>

\* an empty first page returned for a non-empty list
C14_EmptyFirstPage ==
    /\ pc = "done"
    /\ first_page_cap = 0
    /\ transactions # <<>>
    /\ PageLen(1) = 0

\* the loop still running after more pages than there are transactions
C14_LoopsOnZeroCapacity ==
    /\ pc = "loop"
    /\ other_page_cap = 0
    /\ remaining # <<>>
    /\ Len(pages) > Len(transactions) + 1
    /\ PageLen(Len(pages)) = 0

-----------------------------------------------------------------------------
(* Properties of the dashboard's history.  dashboard.shown says that index  *)
(* was the last call, so get_balance is the balance of the ledger it read.  *)

History == dashboard.transactions

\* every transfer of the ledger has an amount above zero
PositiveTransfers == \A i \in 1..Len(transfers) : transfers[i].amount > 0

RECURSIVE ReplayForward(_, _, _)
\* entries i, i - 1, ..., 1 of the list re-applied to the balance b: an
\* entry's amount is negative for a transfer and positive for a deposit
ReplayForward(list, i, b) ==
    IF i = 0 THEN b
    ELSE ReplayForward(list, i - 1, b + list[i].amount)

\* the replay from the oldest entry, its balance_after read as the balance
\* after that entry
ReplayAfterOldest ==
    ReplayForward(History, Len(History) - 1, History[Len(History)].balance_after)

\* the same, its balance_after read as the balance before that entry
ReplayFromOldest ==
    ReplayForward(History, Len(History), History[Len(History)].balance_after)

\* C15: for every non-empty history of a ledger whose transfers have
\* positive amounts, re-applying the returned entries forward from the
\* oldest one's balance_after (each transfer subtracted, each deposit added)
\* ends at get_balance, under one reading or the other of where the replay
\* starts.
C15_RoundTrip ==
    (dashboard.shown /\ History # <<>> /\ PositiveTransfers) =>
        \/ ReplayAfterOldest = get_balance
        \/ ReplayFromOldest = get_balance

\* C16: for every non-empty history of a ledger whose transfers have
\* positive amounts, the balance_after of the most recent entry is
\* get_balance plus the amount of that entry if it is a transfer, minus the
\* amount if it is a deposit.
C16_FirstEntryBalance ==
    (dashboard.shown /\ History # <<>> /\ PositiveTransfers) =>
        History[1].balance_after =
            IF History[1].type = "transfer"
            THEN get_balance + Abs(History[1].amount)
            ELSE get_balance - History[1].amount

\* a second call of index right after a first one, with the same limit and days
C17_Step ==
    (/\ dashboard.shown
     /\ dashboard'.shown
     /\ dashboard'.limit = dashboard.limit
     /\ dashboard'.days = dashboard.days) =>
        dashboard'.transactions = dashboard.transactions

\* C17: two calls of index with the same limit and days and no call on the
\* ledger between them render the same history: same entries, same order
\* (entries of equal date included), same balance_after values.
C17_Idempotent == [][C17_Step]_vars

Returned(r) == request[r].pc = "returned"

\* C18: once two concurrent requests to /api/create-transfer have both
\* returned, the transfers they created are two distinct rows, both
\* completed, and get_balance is the balance of the empty ledger less the
\* sum of the two amounts, whatever the interleaving of their steps was.
C18_NoLostUpdate ==
    (Returned(1) /\ Returned(2)) =>
        /\ request[1].transfer_id # request[2].transfer_id
        /\ \A r \in Requests :
               transfers[request[r].transfer_id].status = "completed"
        /\ get_balance = starting_balance - (request[1].amount + request[2].amount)

\* request 2 created its transfer first, and both transfers were settled
\* before either request read the balance for its answer
C18_Witness ==
    /\ Returned(1)
    /\ Returned(2)
    /\ request[1].transfer_id = 2
    /\ request[2].transfer_id = 1
    /\ request[1].amount = 250
    /\ request[2].amount = 250
    /\ request[1].new_balance = starting_balance - 500
    /\ request[2].new_balance = starting_balance - 500

\* C19: the running balance from which index walks back through the history
\* is get_balance, the balance over the whole ledger, also when completed
\* transfers or deposits lie outside the window or beyond the limit.
C19_WalkStartsAtBalance ==
    (dashboard.shown /\ PositiveTransfers) =>
        dashboard.running_balance = get_balance

\* C20: an entry's balance_after is the running balance before the
\* adjustment for that entry: the first entry's is the value the walk starts
\* from, and the next entry's is this entry's adjusted by this entry.
C20_AssignedBeforeAdjusting ==
    (dashboard.shown /\ History # <<>>) =>
        /\ History[1].balance_after = dashboard.running_balance
        /\ \A i \in 1..(Len(History) - 1) :
               History[i + 1].balance_after =
                   Adjusted(History[i].balance_after, History[i])

\* C21: index called with a limit renders at most that many entries (the
\* most recent ones of the merged sequence of transfers and deposits).
C21_AtMostLimit ==
    dashboard.shown => Len(History) <= dashboard.limit

\* the completed transfer of the ledger that an entry of the history shows
IsTransferOf(entry, row) ==
    /\ row.status = "completed"
    /\ entry.category = row.reference_number
    /\ entry.amount = -row.amount
    /\ entry.date = IF row.completed_at # NULL THEN row.completed_at
                                               ELSE row.created_at

IsDepositOf(entry, row) ==
    /\ entry.amount = row.amount
    /\ entry.date = row.created_at

\* C22: the history holds completed transfers and deposits in one sequence,
\* each dated by completed_at if it has one and by created_at otherwise,
\* and no entry is dated before the entry listed after it.
C22_OrderedByDateDesc ==
    dashboard.shown =>
        /\ \A i \in 1..(Len(History) - 1) : History[i].date >= History[i + 1].date
        /\ \A i \in 1..Len(History) :
               IF History[i].type = "transfer"
               THEN \E k \in 1..Len(transfers) : IsTransferOf(History[i], transfers[k])
               ELSE \E k \in 1..Len(deposits) : IsDepositOf(History[i], deposits[k])

\* a deposit listed before an older transfer that was completed after it was
\* created, and a pending transfer left out
C22_Witness ==
    /\ dashboard.shown
    /\ Len(History) = 2
    /\ History[1].type = "deposit"
    /\ History[2].type = "transfer"
    /\ History[1].date > History[2].date
    /\ Len(transfers) = 2
    /\ transfers[1].status = "pending"
    /\ transfers[2].status = "completed"

\* C23: index called with days = 0 renders an empty history in every state
\* of the ledger, also when a row is stamped with the current time.
C23_ZeroDaysEmpty ==
    (dashboard.shown /\ dashboard.days = 0) => History = <<>>

C24_Completed ==
    \A r \in Requests :
        Returned(r) =>
            /\ transfers[request[r].transfer_id].status = "completed"
            /\ transfers[request[r].transfer_id].completed_at # NULL

\* the step in which a request returns
C24_ReturnStep ==
    \A r \in Requests :
        (request[r].pc = "notified" /\ request'[r].pc = "returned") =>
            request'[r].new_balance =
                get_balance_on(WithoutRow(transfers, request[r].transfer_id), deposits)
                - request[r].amount

\* C24: when /api/create-transfer has returned success, the transfer it
\* created is completed with completed_at set, and the new_balance it returned
\* counts that transfer, whether the e-mail was sent or failed.
C24_SuccessMeansCompleted == [](C24_Completed) /\ [][C24_ReturnStep]_vars

\* a request that returned although its e-mail failed
C24_Witness ==
    /\ Returned(1)
    /\ ~request[1].email_sent
    /\ request[1].amount = 250
    /\ request[1].new_balance = starting_balance - 250
    /\ transfers[request[1].transfer_id].status = "completed"

SessionComplete == session.selected_contact /\ session.transfer_details

\* a transfer is recorded only under a session holding contact and details
C25_RecordsOnlyWithSession ==
    Len(transfers') > Len(transfers) => SessionComplete

\* a request that arrived under an incomplete session is rejected and
\* records nothing
C25_RejectsWithout ==
    (request[1].pc = "start" /\ ~SessionComplete) =>
        /\ request'[1].pc = "rejected"
        /\ transfers' = transfers

\* the success page, when it shows a transfer, leaves neither in the session
C25_SuccessClears ==
    (last'.op = "transfer_success" /\ last'.result = "ok") =>
        ~session'.selected_contact /\ ~session'.transfer_details

\* the contact enters the session by enter_details only, the details by
\* review_transfer only and under a selected contact
C25_SetAgain ==
    /\ (~session.selected_contact /\ session'.selected_contact) =>
           last'.op = "enter_details"
    /\ (~session.transfer_details /\ session'.transfer_details) =>
           last'.op = "review_transfer" /\ session'.selected_contact

\* C25: /api/create-transfer records a transfer only when the session holds
\* a selected contact and reviewed transfer details, and otherwise answers
\* with an error and records nothing; once transfer_success has cleared the
\* session, requests are rejected until enter_details and review_transfer
\* have set both again.
C25_SessionGuardsWorkflow ==
    [][C25_RecordsOnlyWithSession /\ C25_RejectsWithout
       /\ C25_SuccessClears /\ C25_SetAgain]_vars

\* after one transfer and its success page, a further request was rejected
C25_Witness ==
    /\ request[1].pc = "rejected"
    /\ Len(transfers) = 1
    /\ transfers[1].status = "completed"
    /\ session = NoSession

\* an iteration of the loop leaves remaining shorter than it was
C26_Shortens == PaginateNext => Len(remaining') < Len(remaining)

\* C26: under capacities of at least 1, paginate_transactions returns for
\* every list: each iteration of the loop shortens remaining, and the call
\* reaches its return.
C26_Terminates == <>(pc = "done") /\ [][C26_Shortens]_vars

\* a call that returned after two iterations of the loop
C26_Witness ==
    /\ pc = "done"
    /\ first_page_cap = 1
    /\ other_page_cap = 1
    /\ Len(transactions) = 3
    /\ Len(pages) = 3
    /\ remaining = <<>>

=============================================================================
